---- MODULE Spec2Model ----
(***************************************************************************)
(* A model of polysearch's hybrid driver (drivers/hybrid, the second half   *)
(* of src/packages/polysearch/src/drivers/google.ts): URL normalisation,    *)
(* result deduplication, and the page-round loop of hybridDriver.search.    *)
(*                                                                          *)
(* Strings are sequences of tokens.  A token stands for a run of characters *)
(* that the code never splits ("https://", "www.", a host, a path segment,  *)
(* a query parameter "name=value", one blank).                              *)
(***************************************************************************)
EXTENDS Integers, Sequences, FiniteSets, TLC

----------------------------------------------------------------------------
(* Strings                                                                  *)

\* String.prototype.toLowerCase on one token.
LowerTok(t) ==
  CASE t = "HTTPS://" -> "https://"
    [] t = "WWW." -> "www."
    [] t = "EX.COM" -> "ex.com"
    [] t = "A" -> "a"
    [] t = "B" -> "b"
    [] t = "X=1" -> "x=1"
    [] t = "AB" -> "ab"
    [] t = "CD" -> "cd"
    [] t = "EF" -> "ef"
    [] t = "UTM_SOURCE=1" -> "utm_source=1"
    [] t = "UTM_SOURCE=2" -> "utm_source=2"
    [] t = "FBCLID=1" -> "fbclid=1"
    [] OTHER -> t

toLowerCase(s) == [k \in 1..Len(s) |-> LowerTok(s[k])]

RECURSIVE trimStart(_)
trimStart(s) ==
  IF s # <<>> /\ Head(s) = " " THEN trimStart(Tail(s)) ELSE s

RECURSIVE trimEnd(_)
trimEnd(s) ==
  IF s # <<>> /\ s[Len(s)] = " " THEN trimEnd(SubSeq(s, 1, Len(s) - 1)) ELSE s

noTrim(s) == s

\* String.prototype.trim
trim(s) == trimEnd(trimStart(s))

startsWith(s, t) == Len(s) >= 1 /\ s[1] = t

endsWith(s, t) == Len(s) >= 1 /\ s[Len(s)] = t

----------------------------------------------------------------------------
(* new URL(...), searchParams.delete, toString                              *)

\* Index of the first token of s at or after position k that is in set T,
\* Len(s) + 1 when there is none.
RECURSIVE IndexOf(_, _, _)
IndexOf(s, k, T) ==
  IF k > Len(s) THEN Len(s) + 1
  ELSE IF s[k] \in T THEN k
  ELSE IndexOf(s, k + 1, T)

\* new URL(s) throws unless s is "https://" followed by a host.
UrlParses(s) ==
  /\ Len(s) >= 2
  /\ s[1] = "https://"
  /\ s[2] \notin {"/", "?", "&", " "}

UrlHost(s) == SubSeq(s, 2, IndexOf(s, 2, {"/", "?"}) - 1)

\* The path is serialised as "/" when the input has none.
UrlPath(s) ==
  LET from == IndexOf(s, 2, {"/", "?"})
      to == IndexOf(s, 2, {"?"}) - 1
  IN  IF from > to THEN <<"/">> ELSE SubSeq(s, from, to)

\* The tokens after the "?", separators included.
UrlQuery(s) == SubSeq(s, IndexOf(s, 2, {"?"}) + 1, Len(s))

\* The name of a query parameter token "name=value".
ParamName(t) ==
  CASE t = "utm_source=1" -> "utm_source"
    [] t = "utm_source=2" -> "utm_source"
    [] t = "utm_medium=1" -> "utm_medium"
    [] t = "utm_campaign=1" -> "utm_campaign"
    [] t = "utm_term=1" -> "utm_term"
    [] t = "utm_content=1" -> "utm_content"
    [] t = "fbclid=1" -> "fbclid"
    [] t = "gclid=1" -> "gclid"
    [] OTHER -> t

paramsToRemove ==
  {"utm_source", "utm_medium", "utm_campaign", "utm_term", "utm_content",
   "fbclid", "gclid"}

\* The parameters of a query, in order, without the "&" separators and
\* without the parameters searchParams.delete removed.
RECURSIVE KeptParams(_)
KeptParams(q) ==
  IF q = <<>> THEN <<>>
  ELSE IF Head(q) = "&" \/ ParamName(Head(q)) \in paramsToRemove
       THEN KeptParams(Tail(q))
  ELSE <<Head(q)>> \o KeptParams(Tail(q))

RECURSIVE JoinParams(_)
JoinParams(ps) ==
  IF ps = <<>> THEN <<>>
  ELSE IF Len(ps) = 1 THEN ps
  ELSE <<Head(ps), "&">> \o JoinParams(Tail(ps))

\* urlObj.toString() after the deletions: an empty query loses its "?".
UrlToString(s) ==
  LET kept == KeptParams(UrlQuery(s))
  IN  <<"https://">> \o UrlHost(s) \o UrlPath(s)
        \o (IF kept = <<>> THEN <<>> ELSE <<"?">> \o JoinParams(kept))

\* normalizeUrl: the key results are deduplicated by.
normalizeUrl(url) ==
  LET lowered == toLowerCase(trim(url))
      noWww == IF startsWith(lowered, "www.") THEN Tail(lowered) ELSE lowered
      normalized == IF endsWith(noWww, "/")
                    THEN SubSeq(noWww, 1, Len(noWww) - 1)
                    ELSE noWww
  IN  IF UrlParses(normalized)
      THEN UrlToString(normalized)
      ELSE toLowerCase(trim(url))

----------------------------------------------------------------------------
(* deduplicateResults                                                       *)

\* [...new Set([...a, ...b])]: a, then the elements of b not seen before.
RECURSIVE Uniq(_, _)
Uniq(s, acc) ==
  IF s = <<>> THEN acc
  ELSE Uniq(Tail(s),
            IF \E k \in 1..Len(acc) : acc[k] = Head(s)
            THEN acc ELSE Append(acc, Head(s)))

MergeSourcesNoSet(existing, result) == existing \o result

MergeSources(existing, result) == Uniq(existing \o result, <<>>)

MergeIntoKeepFirst(existing, result) ==
  [existing EXCEPT !.sources = MergeSources(existing.sources, result.sources)]

\* The else branch of the loop body: merge result into the stored value.
MergeInto(existing, result) ==
  LET merged ==
        [existing EXCEPT !.sources = MergeSources(existing.sources, result.sources)]
  IN  IF result.weight > existing.weight
      THEN [merged EXCEPT !.weight = result.weight,
                          !.title = result.title,
                          !.snippet = result.snippet,
                          !.rank = result.rank]
      ELSE IF result.weight = existing.weight /\ result.rank < existing.rank
      THEN [merged EXCEPT !.rank = result.rank]
      ELSE merged

DedupKeyRaw(url) == url

\* The key of the Map for one result.
DedupKey(url) == normalizeUrl(url)

\* urlMap is a Map in insertion order; it is kept as the sequence of its
\* values, the key of a value being DedupKey of its url (the url of a stored
\* value never changes, so this is the key it was stored under).
RECURSIVE BuildUrlMap(_, _)
BuildUrlMap(results, urlMap) ==
  IF results = <<>> THEN urlMap
  ELSE LET result == Head(results)
           hits == {k \in 1..Len(urlMap) :
                      DedupKey(urlMap[k].url) = DedupKey(result.url)}
       IN  BuildUrlMap(
             Tail(results),
             IF hits = {}
             THEN Append(urlMap, result)
             ELSE LET k == CHOOSE k \in hits : TRUE
                  IN  [urlMap EXCEPT ![k] = MergeInto(urlMap[k], result)])

CompareNoSort(a, b) == 0

\* The sort comparator: negative, zero or positive.  rank / weight is
\* compared by cross-multiplication (weights are positive).
Compare(a, b) ==
  IF a.rank * b.weight # b.rank * a.weight
  THEN a.rank * b.weight - b.rank * a.weight
  ELSE b.weight - a.weight

\* Array.prototype.sort is stable: insert each element after the last
\* element that does not compare greater than it.
RECURSIVE InsertSorted(_, _)
InsertSorted(sorted, e) ==
  IF sorted = <<>> THEN <<e>>
  ELSE LET last == sorted[Len(sorted)]
       IN  IF Compare(last, e) > 0
           THEN Append(InsertSorted(SubSeq(sorted, 1, Len(sorted) - 1), e), last)
           ELSE Append(sorted, e)

RECURSIVE SortResults(_, _)
SortResults(s, acc) ==
  IF s = <<>> THEN acc ELSE SortResults(Tail(s), InsertSorted(acc, Head(s)))

deduplicateResults(results) == SortResults(BuildUrlMap(results, <<>>), <<>>)

----------------------------------------------------------------------------
(* Configuration, requests and provider behaviour                           *)

maxPages == 5

MaxPage == 2

MaxSearches == 2

DriverNames == {"a", "b"}

\* The weights of the two drivers: the first lighter, heavier, or equal.
WeightPairs == {<<1, 2>>, <<2, 1>>, <<2, 2>>}

PerPages == {1, 2}

Queries == {<<"q">>, <<" ">>, <<>>}

UrlA == <<"https://", "ex.com", "/", "a">>

UrlA2 == <<"https://", "EX.COM", "/", "a", "/">>

UrlB == <<"https://", "ex.com", "/", "b">>

UrlC == <<"https://", "ex.com", "/", "c", "?", "utm_source=1">>

\* hybridDriver(options): the normalized driver list, two drivers; the first
\* is bound with a timeout, the second without one (timeout undefined, 0
\* here, is falsy).
DriverConfigs ==
  {<<[name |-> "a", weight |-> w[1], timeout |-> 3000],
     [name |-> n2, weight |-> w[2], timeout |-> 0]>> :
     w \in WeightPairs, n2 \in DriverNames}

Drivers == 1..2

\* What a provider has to offer for the query, best first; page p of it is
\* what its search returns for page p.
Catalogues ==
  { <<UrlA, UrlB, UrlC>>, <<UrlB, UrlA2, UrlA>>, <<UrlC, UrlA2>> }

ReportedTotals == {0, 40, 100}

\* A results field that is no list.
BadList == <<[notAnArray |-> TRUE]>>

----------------------------------------------------------------------------
(* State                                                                    *)

VARIABLES
  normalizedDrivers,  \* the driver bindings of the hybrid driver
  catalogue,          \* per driver, what the provider behind it has to offer
  cacheConfig,        \* options.cache: FALSE when caching is disabled
  cache,              \* the entries of the cache createCache returned
  pc,                 \* "idle", "round" (provider calls in flight), "done", "rejected"
  query, page, perPage,  \* the search options of the running search
  driverPage,         \* the round
  allResults,         \* the accumulated weighted results
  driverTotals,       \* Map: driver name -> total
  settled,            \* per driver, the promise of its call of this round
  response,           \* what search resolved with
  callLog,            \* history: the driver.search calls of this search
  returnedBy,         \* history: <<driver, key>> for every result a fulfilled call returned
  firstTotal,         \* history: per driver, the first total it reported
  firstPositive,      \* history: per driver, its first total above 0 and the round
  nSearch,            \* history: searches started
  served,             \* history: requests that completed before this search
  ttl,                \* the ttl of the cache, in seconds
  storageMeta,        \* whether the storage backend reports an mtime for a key
  clock,              \* Date.now(), in seconds
  requests,           \* the requests the callers of the cached drivers make
  inputs,             \* the URLs handed to normalizeUrl
  suggestions,        \* per driver, what its suggest returns (none without suggest)
  lastOp,             \* the last call on the cache or on a cached driver, and its outcome
  calls,              \* a get and a set of the cache that overlap: where each stands
  composable          \* the state of usePolySearch and its searches in flight

vars ==
  <<normalizedDrivers, catalogue, cacheConfig, cache, pc, query, page, perPage,
    driverPage, allResults, driverTotals, settled, response, callLog,
    returnedBy, firstTotal, firstPositive, nSearch, served, ttl, storageMeta,
    clock, requests, inputs, suggestions, lastOp, calls,
    composable>>

\* What hybridDriver.search leaves alone: the bindings, the providers, the
\* cache and the clock.
config ==
  <<normalizedDrivers, catalogue, cacheConfig, cache, ttl, storageMeta, clock,
    requests, inputs, suggestions, lastOp, calls,
    composable>>

\* The state of a search of the hybrid driver.
searchVars ==
  <<normalizedDrivers, catalogue, pc, query, page, perPage, driverPage,
    allResults, driverTotals, settled, response, callLog, returnedBy,
    firstTotal, firstPositive, nSearch, served>>

EmptyMap == [x \in {} |-> 0]

NoResponse == [pending |-> TRUE]

NoOp == [op |-> "none"]

\* Neither call has been made.
NoCalls == [get |-> [at |-> "none"], set |-> [at |-> "none"]]

Null == [null |-> TRUE]

\* The value of a ref that holds undefined, and of one that holds x.
undefined == [undefined |-> TRUE]

Defined(x) == [value |-> x]

\* const perPage = ref(10)
defaultPerPage == 10

\* usePolySearch(): the refs as they are created, no search started.
\* inFlight, nStarted and latest are history: the manager.search calls
\* awaited, the searches started, and the last of them.
FreshComposable ==
  [isSearching |-> FALSE,
   searchResults |-> <<>>,
   totalResults |-> undefined,
   pagination |-> undefined,
   error |-> Null,
   currentQuery |-> <<>>,
   currentPage |-> 1,
   perPage |-> defaultPerPage,
   searchCache |-> EmptyMap,
   inFlight |-> {},
   nStarted |-> 0,
   latest |-> [outcome |-> "none"]]

\* const ttl = cacheConfig?.ttl ?? 60
defaultTtl == 60

Pending == [status |-> "pending"]

\* No search has run on the hybrid driver.
IdleSearch(configs, catalogues) ==
  /\ normalizedDrivers \in configs
  /\ catalogue \in [Drivers -> catalogues]
  /\ pc = "idle"
  /\ query = <<>>
  /\ page = 1
  /\ perPage = 1
  /\ driverPage = 1
  /\ allResults = <<>>
  /\ driverTotals = EmptyMap
  /\ settled = [i \in Drivers |-> Pending]
  /\ response = NoResponse
  /\ callLog = <<>>
  /\ returnedBy = {}
  /\ firstTotal = EmptyMap
  /\ firstPositive = EmptyMap
  /\ nSearch = 0
  /\ served = {}

\* The state after hybridDriver(options) returned: options.cache is left
\* undefined (caching with the defaults, on a storage that reports the
\* modification time of its entries), no search has run.
InitWith(configs, catalogues) ==
  /\ IdleSearch(configs, catalogues)
  /\ cacheConfig = TRUE
  /\ cache = EmptyMap
  /\ ttl = defaultTtl
  /\ storageMeta = TRUE
  /\ clock = 0
  /\ requests = <<>>
  /\ inputs = <<>>
  /\ suggestions = <<>>
  /\ lastOp = NoOp
  /\ calls = NoCalls
  /\ composable = FreshComposable

Init == InitWith(DriverConfigs, Catalogues)

----------------------------------------------------------------------------
(* The providers                                                            *)

Min(a, b) == IF a < b THEN a ELSE b

\* Array.prototype.slice(start, end), 0-based, end excluded.
slice(s, start, end) == SubSeq(s, Min(start, Len(s)) + 1, Min(end, Len(s)))

\* The results a provider returns for page p with n per page; the title and
\* snippet of an item name the provider and the item's place in its
\* catalogue.
ResultPage(d, p, n) ==
  LET urls == slice(catalogue[d], (p - 1) * n, p * n)
  IN  [k \in 1..Len(urls) |->
         [title |-> <<d, (p - 1) * n + k>>,
          url |-> urls[k],
          snippet |-> <<"about", d, (p - 1) * n + k>>]]

\* A results field that is no list, and a list whose item has no url.
MalformedPages(d, p, n) ==
  { BadList, <<[title |-> <<d, (p - 1) * n + 1>>]>> }

\* What a provider that reports no total may fulfil with.
SearchResponses(d, p, n) ==
  { [results |-> r] : r \in {ResultPage(d, p, n)} \cup MalformedPages(d, p, n) }

\* What a provider that may report a total may fulfil with.
SearchResponsesWithTotal(d, p, n) ==
  { [results |-> ResultPage(d, p, n)] }
  \cup
  { [results |-> ResultPage(d, p, n), totalResults |-> t] : t \in ReportedTotals }

----------------------------------------------------------------------------
(* hybridDriver.search                                                      *)

targetCountPlusOne == page * perPage + 1

\* const targetCount = page * perPage
targetCount == page * perPage

\* normalizedDrivers.map(async ...) up to the first await of every callback:
\* driver.search is called once per driver, in order, with the round as
\* page.  (A call that throws synchronously rejects its callback's promise
\* at once; that is Reject below, taken before any other step.)
IssuedSlots == [i \in Drivers |-> Pending]

IssuedCalls(round, n) ==
  [i \in Drivers |-> [driver |-> i, page |-> round, perPage |-> n]]

\* const { query, page = 1, perPage = 10 } = searchOptions, the empty-query
\* return, and the first pass through the loop up to Promise.allSettled.
Search(q, p, n) ==
  /\ pc \in {"idle", "done", "rejected"}
  /\ nSearch' = nSearch + 1
  /\ query' = q
  /\ page' = p
  /\ perPage' = n
  /\ driverPage' = 1
  /\ allResults' = <<>>
  /\ driverTotals' = EmptyMap
  /\ returnedBy' = {}
  /\ firstTotal' = EmptyMap
  /\ firstPositive' = EmptyMap
  /\ IF trim(q) = <<>>
     THEN /\ pc' = "done"
          /\ response' = [results |-> <<>>]
          /\ settled' = [i \in Drivers |-> Pending]
          /\ callLog' = <<>>
          /\ served' = served \cup {<<q, p, n>>}
     ELSE /\ pc' = "round"
          /\ response' = NoResponse
          /\ settled' = IssuedSlots
          /\ callLog' = IssuedCalls(1, n)
          /\ served' = served
  /\ UNCHANGED config

RecordTotalOverwrite(totals, name, result) ==
  IF "totalResults" \in DOMAIN result /\ result.totalResults > 0
  THEN [x \in DOMAIN totals \cup {name} |->
          IF x = name THEN result.totalResults ELSE totals[x]]
  ELSE totals

\* if (!driverTotals.has(driverName)) { ... driverTotals.set(...) }
RecordTotal(totals, name, result) ==
  IF name \notin DOMAIN totals
     /\ "totalResults" \in DOMAIN result
     /\ result.totalResults > 0
  THEN [x \in DOMAIN totals \cup {name} |->
          IF x = name THEN result.totalResults ELSE totals[x]]
  ELSE totals

WellFormed(results) ==
  /\ results # BadList
  /\ \A k \in 1..Len(results) : "url" \in DOMAIN results[k]

\* The provider's promise fulfils before the timer fires: the callback
\* records the total and returns {driverName, weight, results}.
Fulfil(i, result) ==
  /\ pc = "round"
  /\ settled[i].status = "pending"
  /\ settled' = [settled EXCEPT ![i] =
       [status |-> "fulfilled",
        value |-> [driverName |-> normalizedDrivers[i].name,
                   weight |-> normalizedDrivers[i].weight,
                   results |-> result.results]]]
  /\ driverTotals' = RecordTotal(driverTotals, normalizedDrivers[i].name, result)
  /\ returnedBy' = returnedBy \cup
       (IF WellFormed(result.results)
        THEN {<<i, normalizeUrl(result.results[k].url)>> :
                k \in 1..Len(result.results)}
        ELSE {})
  /\ firstTotal' =
       IF i \notin DOMAIN firstTotal /\ "totalResults" \in DOMAIN result
       THEN [x \in DOMAIN firstTotal \cup {i} |->
               IF x = i THEN result.totalResults ELSE firstTotal[x]]
       ELSE firstTotal
  /\ firstPositive' =
       IF /\ i \notin DOMAIN firstPositive
          /\ "totalResults" \in DOMAIN result
          /\ result.totalResults > 0
       THEN [x \in DOMAIN firstPositive \cup {i} |->
               IF x = i
               THEN [total |-> result.totalResults, round |-> driverPage]
               ELSE firstPositive[x]]
       ELSE firstPositive
  /\ UNCHANGED <<config, pc, query, page, perPage, driverPage, allResults,
                 response, callLog, nSearch, served>>

\* The provider's call throws, or its promise rejects before the timer fires.
Reject(i) ==
  /\ pc = "round"
  /\ settled[i].status = "pending"
  /\ settled' = [settled EXCEPT ![i] = [status |-> "rejected", reason |-> "error"]]
  /\ UNCHANGED <<config, pc, query, page, perPage, driverPage, allResults,
                 driverTotals, response, callLog, returnedBy, firstTotal,
                 firstPositive, nSearch, served>>

TimerNeverArmed(i) == FALSE

\* timeout ? await withTimeout(...) : await searchPromise
TimerArmed(i) == normalizedDrivers[i].timeout # 0

\* withTimeout: the timer fires while the provider's promise is pending.
Timeout(i) ==
  /\ pc = "round"
  /\ TimerArmed(i)
  /\ settled[i].status = "pending"
  /\ settled' = [settled EXCEPT ![i] = [status |-> "rejected", reason |-> "timeout"]]
  /\ UNCHANGED <<config, pc, query, page, perPage, driverPage, allResults,
                 driverTotals, response, callLog, returnedBy, firstTotal,
                 firstPositive, nSearch, served>>

\* The provider's promise fulfils after the timer fired: Promise.race has
\* settled, the value is held by no one.
LateFulfil(i, result) ==
  /\ pc = "round"
  /\ settled[i].status = "rejected"
  /\ settled[i].reason = "timeout"
  /\ "late" \notin DOMAIN settled[i]
  /\ settled' = [settled EXCEPT ![i] =
       [status |-> "rejected", reason |-> "timeout", late |-> result.results]]
  /\ UNCHANGED <<config, pc, query, page, perPage, driverPage, allResults,
                 driverTotals, response, callLog, returnedBy, firstTotal,
                 firstPositive, nSearch, served>>

\* results.map((result, index) => ({...result, weight, sources, rank}))
WeightedResults(value, round, n) ==
  [k \in 1..Len(value.results) |->
     [title |-> value.results[k].title,
      url |-> value.results[k].url,
      snippet |-> value.results[k].snippet,
      weight |-> value.weight,
      sources |-> <<value.driverName>>,
      rank |-> (round - 1) * n + k]]

ContributionWithLate(slot, name, weight, round, n) ==
  IF slot.status = "fulfilled"
  THEN WeightedResults(slot.value, round, n)
  ELSE IF "late" \in DOMAIN slot /\ WellFormed(slot.late)
  THEN WeightedResults(
         [driverName |-> name, weight |-> weight, results |-> slot.late],
         round, n)
  ELSE <<>>

\* if (promiseResult.status === "fulfilled") allResults.push(...)
Contribution(slot, name, weight, round, n) ==
  IF slot.status = "fulfilled"
  THEN WeightedResults(slot.value, round, n)
  ELSE <<>>

RECURSIVE Pushed(_, _, _, _)
Pushed(slots, i, round, n) ==
  IF i > Len(normalizedDrivers) THEN <<>>
  ELSE Contribution(slots[i], normalizedDrivers[i].name,
                    normalizedDrivers[i].weight, round, n)
         \o Pushed(slots, i + 1, round, n)

MergeThrowsOnRejection(slots) ==
  \E i \in Drivers :
    \/ slots[i].status = "rejected"
    \/ slots[i].status = "fulfilled" /\ ~WellFormed(slots[i].value.results)

\* The loop over driverResults and deduplicateResults throw a TypeError when
\* a fulfilled value's results is no list (results.map) or holds an item
\* without url (url.trim() in normalizeUrl, and again in its catch).
MergeThrows(slots) ==
  \E i \in Drivers :
    slots[i].status = "fulfilled" /\ ~WellFormed(slots[i].value.results)

offsetNextPage(p, n) == p * n

offset(p, n) == (p - 1) * n

RECURSIVE SumValues(_, _)
SumValues(m, keys) ==
  IF keys = {} THEN 0
  ELSE LET k == CHOOSE k \in keys : TRUE
       IN  m[k] + SumValues(m, keys \ {k})

estimatedTotalResults(totals) == SumValues(totals, DOMAIN totals)

\* The return statement after the loop.
SearchResponse(results, totals, p, n) ==
  [results |-> slice(results, offset(p, n), offset(p, n) + n),
   totalResults |->
     IF estimatedTotalResults(totals) > 0
     THEN estimatedTotalResults(totals)
     ELSE Len(results),
   pagination |-> [page |-> p, perPage |-> n]]

NextDriverPageStuck(round) == round

\* driverPage++
NextDriverPage(round) == round + 1

\* What is left of a settled promise once its value has been merged.
Outcome(slot) ==
  IF slot.status = "fulfilled" THEN [status |-> "fulfilled"] ELSE slot

\* Promise.allSettled resolves once every callback's promise has settled;
\* search then merges the round, deduplicates, and either returns or calls
\* every driver for the next round.
MergeRound ==
  /\ pc = "round"
  /\ \A i \in Drivers : settled[i].status # "pending"
  /\ IF MergeThrows(settled)
     THEN /\ pc' = "rejected"
          /\ UNCHANGED <<driverPage, allResults, settled, response, callLog,
                          served>>
     ELSE LET merged == deduplicateResults(
                          allResults \o Pushed(settled, 1, driverPage, perPage))
              more == /\ Len(merged) < targetCount
                      /\ NextDriverPage(driverPage) <= maxPages
          IN  /\ allResults' = merged
              /\ driverPage' = IF Len(merged) >= targetCount
                               THEN driverPage
                               ELSE NextDriverPage(driverPage)
              /\ IF more
                 THEN /\ pc' = "round"
                      /\ settled' = IssuedSlots
                      /\ callLog' = callLog \o
                           IssuedCalls(NextDriverPage(driverPage), perPage)
                      /\ UNCHANGED <<response, served>>
                 ELSE /\ pc' = "done"
                      /\ response' =
                           SearchResponse(merged, driverTotals, page, perPage)
                      /\ served' = served \cup {<<query, page, perPage>>}
                      /\ settled' = [i \in Drivers |-> Outcome(settled[i])]
                      /\ UNCHANGED callLog
  /\ UNCHANGED <<config, query, page, perPage, driverTotals, returnedBy,
                 firstTotal, firstPositive, nSearch>>

----------------------------------------------------------------------------
(* Specifications                                                           *)

\* One search on a fresh driver; the providers report no totals.
Next ==
  \/ \E q \in Queries, p \in 1..MaxPage, n \in PerPages :
       pc = "idle" /\ Search(q, p, n)
  \/ \E i \in Drivers :
       \E result \in SearchResponses(i, driverPage, perPage) : Fulfil(i, result)
  \/ \E i \in Drivers : Reject(i)
  \/ \E i \in Drivers : Timeout(i)
  \/ \E i \in Drivers :
       LateFulfil(i, [results |-> ResultPage(i, driverPage, perPage)])
  \/ MergeRound

Spec == Init /\ [][Next]_vars

\* One search; the providers may report a total with every page.
TotalsInit ==
  InitWith({c \in DriverConfigs : c[1].weight = 1 /\ c[2].weight = 2},
           {<<UrlA, UrlB>>})

TotalsNext ==
  \/ \E p \in 1..MaxPage, n \in PerPages :
       pc = "idle" /\ Search(<<"q">>, p, n)
  \/ \E i \in Drivers :
       \E result \in SearchResponsesWithTotal(i, driverPage, perPage) :
         Fulfil(i, result)
  \/ \E i \in Drivers : Reject(i)
  \/ \E i \in Drivers : Timeout(i)
  \/ MergeRound

TotalsSpec == TotalsInit /\ [][TotalsNext]_vars

\* Searches one after the other on the same driver, the caller repeating
\* its request.
RepeatInit ==
  InitWith({c \in DriverConfigs :
              c[1].weight = 2 /\ c[2].weight = 1 /\ c[2].name = "b"},
           {<<UrlA, UrlB, UrlC>>})

RepeatNext ==
  \/ Next
  \/ /\ pc = "done"
     /\ nSearch < MaxSearches
     /\ Search(query, page, perPage)

RepeatSpec == RepeatInit /\ [][RepeatNext]_vars

\* The caller asks for the pages of a query one after the other, up to
\* this page.
LastPage == MaxPage + 1

\* The pages the caller has been given so far.
KeptPages == IF lastOp.op = "pages" THEN lastOp.pages ELSE <<>>

\* The caller keeps the page that search returned.
KeepPage ==
  /\ pc = "done"
  /\ Len(KeptPages) = page - 1
  /\ lastOp' = [op |-> "pages", pages |-> Append(KeptPages, response.results)]
  /\ UNCHANGED <<searchVars, cacheConfig, cache, ttl, storageMeta, clock,
                 requests, inputs, suggestions, calls, composable>>

\* Searches for page 1, 2, ... of one query with one perPage; every provider
\* answers every call, with the same results for the same page.
PagesNext ==
  \/ \E n \in PerPages : pc = "idle" /\ Search(<<"q">>, 1, n)
  \/ \E i \in Drivers :
       Fulfil(i, [results |-> ResultPage(i, driverPage, perPage)])
  \/ MergeRound
  \/ KeepPage
  \/ /\ pc = "done"
     /\ Len(KeptPages) = page
     /\ page < LastPage
     /\ Search(query, page + 1, perPage)

PagesSpec == Init /\ [][PagesNext]_vars

\* The total a provider reports with every page: 100 the first, 40 the
\* second.
ProviderTotal(i) == IF i = 1 THEN 100 ELSE 40

\* What provider i answers to the call for page p with n per page, always.
FixedResponse(i, p, n) ==
  [results |-> ResultPage(i, p, n), totalResults |-> ProviderTotal(i)]

\* One search; every provider answers every call with its fixed response,
\* the calls of a round completing in any order.
OrderNext ==
  \/ \E p \in 1..MaxPage, n \in PerPages :
       pc = "idle" /\ Search(<<"q">>, p, n)
  \/ \E i \in Drivers : Fulfil(i, FixedResponse(i, driverPage, perPage))
  \/ MergeRound

OrderSpec == Init /\ [][OrderNext]_vars

\* The call of provider i settles: it fulfils or it rejects.
Settle(i) ==
  \/ \E result \in {[results |-> ResultPage(i, driverPage, perPage)]} :
       Fulfil(i, result)
  \/ Reject(i)

\* The first driver is bound with a timeout, the second without.
LiveInit ==
  InitWith({c \in DriverConfigs :
              c[1].weight = 2 /\ c[2].weight = 1 /\ c[2].name = "b"},
           {<<UrlA, UrlB, UrlC>>, <<UrlC, UrlA2>>})

\* One search; a provider's call may settle, time out, or stay pending.
LiveNext ==
  \/ \E q \in Queries, p \in 1..MaxPage, n \in PerPages :
       pc = "idle" /\ Search(q, p, n)
  \/ \E i \in Drivers : Settle(i)
  \/ \E i \in Drivers : Timeout(i)
  \/ MergeRound

\* What MergeRound waits for: Promise.allSettled has resolved.
MergeEnabled == pc = "round" /\ \A i \in Drivers : settled[i].status # "pending"

\* The call of provider i, bound with no timeout above 0, is pending.
UntimedPending(i) ==
  /\ pc = "round"
  /\ normalizedDrivers[i].timeout <= 0
  /\ settled[i].status = "pending"

\* A timer that was set fires; the code after await Promise.allSettled runs
\* once every promise has settled; the call of a provider that is bound
\* without timeout settles in the end.  The last two are weak fairness of
\* MergeRound and of Settle(i), written with their enabling conditions.
LiveFairness ==
  /\ \A i \in Drivers : WF_vars(Timeout(i))
  /\ ([]<>(~MergeEnabled) \/ []<><<MergeRound>>_vars)
  /\ \A i \in Drivers :
       ([]<>(~UntimedPending(i)) \/ []<><<Settle(i)>>_vars)

LiveSpec == LiveInit /\ [][LiveNext]_vars /\ LiveFairness

----------------------------------------------------------------------------
(* createCache                                                              *)

MaxClock == 3

Ttls == {1, 2}

CacheKeys == {<<"k1">>, <<"k2">>}

CacheValues ==
  { [results |-> <<>>],
    [results |-> <<[title |-> <<"t">>, url |-> UrlA]>>] }

\* storage.get(key): the stored value, null when there is none.
StorageGet(entries, key) ==
  IF key \in DOMAIN entries THEN entries[key].value ELSE Null

\* storage.getMeta(key): an object that holds the modification time of the
\* entry when the backend keeps one.
StorageGetMeta(entries, key) ==
  IF storageMeta /\ key \in DOMAIN entries
  THEN [mtime |-> entries[key].mtime]
  ELSE EmptyMap

\* storage.removeItem(key)
StorageRemoveItem(entries, key) ==
  [k \in DOMAIN entries \ {key} |-> entries[k]]

\* storage.set(key, value, { ttl }), at time now
StorageSet(entries, key, value, now) ==
  [k \in DOMAIN entries \cup {key} |->
     IF k = key THEN [value |-> value, mtime |-> now] ELSE entries[k]]

ExpiredNever(meta, now) == FALSE

\* const age = (Date.now() - meta.mtime.getTime()) / 1000; age > ttl
Expired(meta, now) == now - meta.mtime > ttl

Rejected(entries) == [rejected |-> TRUE, result |-> Null, entries |-> entries]

Resolved(result, entries) ==
  [rejected |-> FALSE, result |-> result, entries |-> entries]

\* await storage.removeItem(key); return null
RemoveAndMiss(entries, key, fail) ==
  IF fail = "removeItem" THEN Rejected(entries)
  ELSE Resolved(Null, StorageRemoveItem(entries, key))

EnabledGetKeepsWithoutMtime(entries, key, now, fail) ==
  LET value == StorageGet(entries, key)
      meta == StorageGetMeta(entries, key)
  IN  IF fail = "get" THEN Rejected(entries)
      ELSE IF value = Null THEN Resolved(Null, entries)
      ELSE IF fail = "getMeta" THEN Rejected(entries)
      ELSE IF "mtime" \in DOMAIN meta /\ Expired(meta, now)
           THEN RemoveAndMiss(entries, key, fail)
           ELSE Resolved(value, entries)

\* get of the enabled cache at time now: what it resolves with and the
\* entries it leaves.  fail names the backend call that rejects when it is
\* reached ("none": no call rejects).
EnabledGet(entries, key, now, fail) ==
  LET value == StorageGet(entries, key)
      meta == StorageGetMeta(entries, key)
  IN  IF fail = "get" THEN Rejected(entries)
      ELSE IF value = Null THEN Resolved(Null, entries)
      ELSE IF fail = "getMeta" THEN Rejected(entries)
      ELSE IF "mtime" \in DOMAIN meta
           THEN IF Expired(meta, now)
                THEN RemoveAndMiss(entries, key, fail)
                ELSE Resolved(value, entries)
           ELSE RemoveAndMiss(entries, key, fail)

\* get of the cache createCache(cacheConfig) returned
get(entries, key, now, fail) ==
  IF cacheConfig = FALSE THEN Resolved(Null, entries)
  ELSE EnabledGet(entries, key, now, fail)

setWhenDisabled(entries, key, value, now, fail) ==
  IF fail = "set" THEN Rejected(entries)
  ELSE Resolved(Null, StorageSet(entries, key, value, now))

\* set of the cache createCache(cacheConfig) returned
set(entries, key, value, now, fail) ==
  IF cacheConfig = FALSE THEN Resolved(Null, entries)
  ELSE IF fail = "set" THEN Rejected(entries)
  ELSE Resolved(Null, StorageSet(entries, key, value, now))

\* What a later call remembers of the call before it.
Brief(o) == IF o.op = "set" THEN o ELSE [op |-> o.op]

\* await cache.set(key, value)
CacheSet(key, value) ==
  /\ cache' = set(cache, key, value, clock, "none").entries
  /\ lastOp' = [op |-> "set", key |-> key, value |-> value, at |-> clock]
  /\ UNCHANGED <<searchVars, cacheConfig, ttl, storageMeta, clock, requests,
                     inputs, suggestions, calls, composable>>

\* await cache.get(key)
CacheGet(key) ==
  LET out == get(cache, key, clock, "none")
  IN  /\ cache' = out.entries
      /\ lastOp' = [op |-> "get", key |-> key, at |-> clock,
                    result |-> out.result,
                    stored |-> IF key \in DOMAIN cache THEN cache[key] ELSE Null,
                    after |-> Brief(lastOp)]
      /\ UNCHANGED <<searchVars, cacheConfig, ttl, storageMeta, clock, requests,
                     inputs, suggestions, calls, composable>>

\* A second passes.
Tick ==
  /\ clock < MaxClock
  /\ clock' = clock + 1
  /\ UNCHANGED <<searchVars, cacheConfig, cache, ttl, storageMeta, requests,
                 inputs, suggestions, lastOp, calls,
    composable>>

\* The state after createCache(cacheConfig) returned, for a configuration
\* that is false or names a ttl, on a storage of either kind.
CacheInit ==
  /\ IdleSearch({c \in DriverConfigs :
                   c[1].weight = 2 /\ c[2].weight = 1 /\ c[2].name = "b"},
                {<<UrlA>>})
  /\ cacheConfig \in BOOLEAN
  /\ cache = EmptyMap
  /\ ttl \in Ttls
  /\ storageMeta \in BOOLEAN
  /\ clock = 0
  /\ requests = <<>>
  /\ inputs = <<>>
  /\ suggestions = <<>>
  /\ lastOp = NoOp
  /\ calls = NoCalls
  /\ composable = FreshComposable

CacheNext ==
  \/ \E key \in CacheKeys, value \in CacheValues : CacheSet(key, value)
  \/ \E key \in CacheKeys : CacheGet(key)
  \/ Tick

CacheSpec == CacheInit /\ [][CacheNext]_vars

----------------------------------------------------------------------------
(* createCache: a get and a set of one key that overlap                     *)

\* The key of both calls.
OverlapKey == <<"k1">>

\* The value the overlapping set writes; the entries set before hold others.
NewValue == [results |-> <<[title |-> <<"new">>, url |-> UrlB]>>]

\* get up to its first await: storage.get(key) reads the value; the call
\* returns null when there is none.  written is the time the value read was
\* stored at.
GetValue ==
  /\ calls.get.at = "none"
  /\ calls' = [calls EXCEPT !.get =
       IF StorageGet(cache, OverlapKey) = Null
       THEN [at |-> "done", result |-> Null, returned |-> clock]
       ELSE [at |-> "getMeta",
             value |-> StorageGet(cache, OverlapKey),
             written |-> cache[OverlapKey].mtime]]
  /\ UNCHANGED <<searchVars, cacheConfig, cache, ttl, storageMeta, clock,
                 requests, inputs, suggestions, lastOp, composable>>

\* storage.getMeta(key) and the test of the age: the call returns the value
\* it read, or goes on to remove the entry.
GetMeta ==
  /\ calls.get.at = "getMeta"
  /\ LET meta == StorageGetMeta(cache, OverlapKey)
     IN  calls' = [calls EXCEPT !.get =
           IF "mtime" \in DOMAIN meta /\ ~Expired(meta, clock)
           THEN [at |-> "done", result |-> @.value, written |-> @.written,
                 returned |-> clock]
           ELSE [at |-> "removeItem", value |-> @.value, written |-> @.written]]
  /\ UNCHANGED <<searchVars, cacheConfig, cache, ttl, storageMeta, clock,
                 requests, inputs, suggestions, lastOp, composable>>

\* storage.removeItem(key); return null
GetRemoveItem ==
  /\ calls.get.at = "removeItem"
  /\ cache' = StorageRemoveItem(cache, OverlapKey)
  /\ calls' = [calls EXCEPT !.get =
       [at |-> "done", result |-> Null, returned |-> clock]]
  /\ UNCHANGED <<searchVars, cacheConfig, ttl, storageMeta, clock, requests,
                 inputs, suggestions, lastOp, composable>>

\* set: storage.set(key, value, { ttl }), its one backend call
SetValue ==
  /\ calls.set.at = "none"
  /\ cache' = StorageSet(cache, OverlapKey, NewValue, clock)
  /\ calls' = [calls EXCEPT !.set = [at |-> "done", time |-> clock]]
  /\ UNCHANGED <<searchVars, cacheConfig, ttl, storageMeta, clock, requests,
                 inputs, suggestions, lastOp, composable>>

\* The cache of createCache({ storage, ttl: 1 }) on a storage that reports
\* modification times.
OverlapInit ==
  /\ IdleSearch({c \in DriverConfigs :
                   c[1].weight = 2 /\ c[2].weight = 1 /\ c[2].name = "b"},
                {<<UrlA>>})
  /\ cacheConfig = TRUE
  /\ cache = EmptyMap
  /\ ttl = 1
  /\ storageMeta = TRUE
  /\ clock = 0
  /\ requests = <<>>
  /\ inputs = <<>>
  /\ suggestions = <<>>
  /\ lastOp = NoOp
  /\ calls = NoCalls
  /\ composable = FreshComposable

\* Sets that complete before the two calls; the backend calls of the get
\* and of the set in any order, while time passes; gets after both.
OverlapNext ==
  \/ /\ calls = NoCalls
     /\ \E value \in CacheValues : CacheSet(OverlapKey, value)
  \/ GetValue
  \/ GetMeta
  \/ GetRemoveItem
  \/ SetValue
  \/ Tick
  \/ /\ calls.get.at = "done"
     /\ calls.set.at = "done"
     /\ CacheGet(OverlapKey)

OverlapSpec == OverlapInit /\ [][OverlapNext]_vars

----------------------------------------------------------------------------
(* The cached drivers: npmDriver, googleCSEDriver                           *)

Digit(d) ==
  CASE d = 0 -> "0" [] d = 1 -> "1" [] d = 2 -> "2" [] d = 3 -> "3"
    [] d = 4 -> "4" [] d = 5 -> "5" [] d = 6 -> "6" [] d = 7 -> "7"
    [] d = 8 -> "8" [] d = 9 -> "9"

\* `${n}` of a number: its decimal digits.
RECURSIVE toString(_)
toString(n) ==
  IF n < 10 THEN <<Digit(n)>> ELSE toString(n \div 10) \o <<Digit(n % 10)>>

\* driverOptions.registry of npmDriver
Registries == {<<"https://registry.npmjs.org">>, <<"https://registry.example">>}

\* driverOptions.cx of googleCSEDriver, character by character
Cxs == {<<"a">>, <<"a", ":", "b">>}

\* searchOptions.query, character by character
CachedQueries == {<<"c">>, <<"b", ":", "c">>}

\* searchOptions.page and searchOptions.perPage; perPage 0: not given
PageChoices == {<<1, 0>>, <<2, 0>>, <<1, 2>>}

CachedDrivers ==
  {[name |-> "npm", scope |-> r] : r \in Registries}
  \cup {[name |-> "google-cse", scope |-> cx] : cx \in Cxs}

SearchRequests ==
  {[driver |-> d, query |-> q, page |-> p[1], perPage |-> p[2]] :
     d \in CachedDrivers, q \in CachedQueries, p \in PageChoices}

\* const perPage = searchOptions.perPage || cache.perPage || 20 (npm), 10
\* (google-cse); the cache configuration names no perPage.
EffectivePerPage(req) ==
  IF req.perPage # 0 THEN req.perPage
  ELSE IF req.driver.name = "npm" THEN 20 ELSE 10

\* `npm:${query}:${page}:${perPage}`, `google-cse:${cx}:${query}:${page}:${perPage}`
cacheKey(req) ==
  LET tail == req.query \o <<":">> \o toString(req.page) \o <<":">>
                \o toString(EffectivePerPage(req))
  IN  IF req.driver.name = "npm"
      THEN <<"npm", ":">> \o tail
      ELSE <<"google-cse", ":">> \o req.driver.scope \o <<":">> \o tail

\* What the service behind the driver answers, mapped to a SearchResponse:
\* it depends on the registry or search engine, the query, the page and the
\* perPage.
Upstream(req) ==
  [results |-> <<[title |-> req.query,
                  url |-> req.driver.scope,
                  snippet |-> <<req.driver.name, req.page, EffectivePerPage(req)>>]>>,
   pagination |-> [page |-> req.page, perPage |-> EffectivePerPage(req)]]

EmptyResponse == [results |-> <<>>]

\* The search of the driver built with cache: false.
Uncached(req, fetchFails) ==
  IF trim(req.query) = <<>> \/ fetchFails THEN EmptyResponse ELSE Upstream(req)

SearchOutcome(rejected, resp, entries, fetched, failed) ==
  [rejected |-> rejected, response |-> resp, entries |-> entries,
   fetched |-> fetched, failed |-> failed]

\* search of npmDriver and of googleCSEDriver at time now: the cache lookup
\* before the try block, the request and the store inside it.  fail names
\* the backend call that rejects when it is reached, fetchFails tells
\* whether the request to the service fails.
DriverSearchOutcome(entries, req, now, fail, fetchFails) ==
  LET key == cacheKey(req)
      cached == get(entries, key, now, fail)
      stored == set(cached.entries, key, Upstream(req), now, fail)
  IN  IF trim(req.query) = <<>>
      THEN SearchOutcome(FALSE, EmptyResponse, entries, FALSE, FALSE)
      ELSE IF cached.rejected
      THEN SearchOutcome(TRUE, Null, cached.entries, FALSE, TRUE)
      ELSE IF cached.result # Null
      THEN SearchOutcome(FALSE, cached.result, cached.entries, FALSE, FALSE)
      ELSE IF fetchFails
      THEN SearchOutcome(FALSE, EmptyResponse, cached.entries, TRUE, FALSE)
      ELSE IF stored.rejected
      THEN SearchOutcome(FALSE, EmptyResponse, stored.entries, TRUE, TRUE)
      ELSE SearchOutcome(FALSE, Upstream(req), stored.entries, TRUE, FALSE)

BackendCalls == {"none", "get", "getMeta", "removeItem", "set"}

\* await driver.search(searchOptions) on one of the cached drivers
DriverSearch(req, fail, fetchFails) ==
  LET out == DriverSearchOutcome(cache, req, clock, fail, fetchFails)
  IN  /\ req \in requests
      /\ cache' = out.entries
      /\ lastOp' = [op |-> "search", request |-> req,
                    rejected |-> out.rejected, response |-> out.response,
                    fetched |-> out.fetched, failed |-> out.failed,
                    fetchFails |-> fetchFails]
      /\ UNCHANGED <<searchVars, cacheConfig, ttl, storageMeta, clock, requests,
                     inputs, suggestions, calls, composable>>

\* Two drivers of one kind built with cache: { storage, ttl: 1 } on one
\* storage that reports modification times (or one such driver); their
\* callers make two different requests.
DriverInit ==
  /\ IdleSearch({c \in DriverConfigs :
                   c[1].weight = 2 /\ c[2].weight = 1 /\ c[2].name = "b"},
                {<<UrlA>>})
  /\ cacheConfig = TRUE
  /\ cache = EmptyMap
  /\ ttl = 1
  /\ storageMeta = TRUE
  /\ clock = 0
  /\ requests \in {{r1, r2} : r1 \in SearchRequests, r2 \in SearchRequests}
  /\ Cardinality(requests) = 2
  /\ inputs = <<>>
  /\ suggestions = <<>>
  /\ \A r1 \in requests, r2 \in requests : r1.driver.name = r2.driver.name
  /\ lastOp = NoOp
  /\ calls = NoCalls
  /\ composable = FreshComposable

DriverNext ==
  \/ \E req \in requests, fail \in BackendCalls, fetchFails \in BOOLEAN :
       (fetchFails => fail = "none") /\ DriverSearch(req, fail, fetchFails)
  \/ Tick

DriverSpec == DriverInit /\ [][DriverNext]_vars

----------------------------------------------------------------------------
(* normalizeUrl on the spellings of a URL                                   *)

\* String.prototype.toUpperCase on one token.
UpperTok(t) ==
  CASE t = "https://" -> "HTTPS://"
    [] t = "www." -> "WWW."
    [] t = "ex.com" -> "EX.COM"
    [] t = "a" -> "A"
    [] t = "x=1" -> "X=1"
    [] t = "utm_source=1" -> "UTM_SOURCE=1"
    [] t = "utm_source=2" -> "UTM_SOURCE=2"
    [] t = "fbclid=1" -> "FBCLID=1"
    [] OTHER -> t

\* What a result's URL points to: with or without scheme, with or without
\* the www. label, a path, a parameter that is no tracking parameter.
UrlShapes ==
  [scheme : BOOLEAN, www : BOOLEAN, path : {<<>>, <<"/", "a">>},
   param : {<<>>, <<"x=1">>}]

\* How it is spelled: in upper or lower case, with a "/" after the path or
\* at the end of the string, with tracking parameters.
UrlSpellings ==
  [upper : BOOLEAN, slash : {"none", "path", "end"},
   tracking : {<<>>, <<"utm_source=1">>, <<"utm_source=2">>, <<"fbclid=1">>}]

Spell(shape, spelling) ==
  LET params == shape.param \o spelling.tracking
      url == (IF shape.scheme THEN <<"https://">> ELSE <<>>)
               \o (IF shape.www THEN <<"www.">> ELSE <<>>)
               \o <<"ex.com">>
               \o shape.path
               \o (IF spelling.slash = "path" THEN <<"/">> ELSE <<>>)
               \o (IF params = <<>> THEN <<>> ELSE <<"?">> \o JoinParams(params))
               \o (IF spelling.slash = "end" THEN <<"/">> ELSE <<>>)
  IN  IF spelling.upper THEN [k \in 1..Len(url) |-> UpperTok(url[k])] ELSE url

\* Two spellings of one URL, and a URL with and without its www. label.
UrlPairs ==
  { [relation |-> "spelling", urls |-> <<Spell(shape, s1), Spell(shape, s2)>>] :
      shape \in UrlShapes, s1 \in UrlSpellings, s2 \in UrlSpellings }
  \cup
  { [relation |-> "www",
     urls |-> <<Spell([shape EXCEPT !.www = TRUE], s),
                Spell([shape EXCEPT !.www = FALSE], s)>>] :
      shape \in UrlShapes, s \in UrlSpellings }

\* The result a driver of the given name and weight returns first, with url.
ResultWith(url, name, weight) ==
  [title |-> <<name, 1>>, url |-> url, snippet |-> <<"about", name, 1>>,
   weight |-> weight, sources |-> <<name>>, rank |-> 1]

\* normalizeUrl on both URLs, and deduplicateResults on two results that
\* carry them.
NormalizeUrls ==
  /\ lastOp = NoOp
  /\ inputs # <<>>
  /\ lastOp' =
       [op |-> "normalizeUrl",
        keys |-> <<normalizeUrl(inputs.urls[1]), normalizeUrl(inputs.urls[2])>>,
        merged |-> deduplicateResults(<<ResultWith(inputs.urls[1], "a", 2),
                                        ResultWith(inputs.urls[2], "b", 1)>>)]
  /\ UNCHANGED <<searchVars, cacheConfig, cache, ttl, storageMeta, clock,
                 requests, inputs, suggestions, calls, composable>>

UrlInit ==
  /\ IdleSearch({c \in DriverConfigs :
                   c[1].weight = 2 /\ c[2].weight = 1 /\ c[2].name = "b"},
                {<<UrlA>>})
  /\ cacheConfig = TRUE
  /\ cache = EmptyMap
  /\ ttl = defaultTtl
  /\ storageMeta = TRUE
  /\ clock = 0
  /\ requests = <<>>
  /\ inputs \in UrlPairs
  /\ suggestions = <<>>
  /\ lastOp = NoOp
  /\ calls = NoCalls
  /\ composable = FreshComposable

UrlNext == NormalizeUrls

UrlSpec == UrlInit /\ [][UrlNext]_vars

----------------------------------------------------------------------------
(* hybridDriver.suggest                                                     *)

SuggestionKeyRaw(suggestion) == suggestion

\* const normalized = suggestion.toLowerCase().trim()
SuggestionKey(suggestion) == trim(toLowerCase(suggestion))

\* deduplicateSuggestions: seen is the set of keys met, unique the list kept.
RECURSIVE DedupSuggestions(_, _, _)
DedupSuggestions(list, seen, unique) ==
  IF list = <<>> THEN unique
  ELSE LET normalized == SuggestionKey(Head(list))
       IN  IF normalized \notin seen /\ Len(normalized) > 0
           THEN DedupSuggestions(Tail(list), seen \cup {normalized},
                                 Append(unique, Head(list)))
           ELSE DedupSuggestions(Tail(list), seen, unique)

deduplicateSuggestions(list) == DedupSuggestions(list, {}, <<>>)

\* The lists a provider's suggest may return: strings in both cases, with
\* blanks around them, empty.
SuggestionLists ==
  { << <<"ab">>, <<"AB">>, <<"cd">> >>,
    << <<"cd">>, <<"ef">> >>,
    << <<" ", "AB">>, <<>>, <<"ef">>, <<" ">> >>,
    <<>> }

\* A driver without suggest method.
NoSuggest == [suggest |-> FALSE]

SuggestionOffers ==
  {NoSuggest} \cup {[suggest |-> TRUE, list |-> l] : l \in SuggestionLists}

\* The value undefined where a string is expected, kept as a token that no
\* string holds.
Undefined == <<"(undefined)">>

\* A value that is no array.
NotAnArray == << <<"(no array)">> >>

\* What a provider's suggest may fulfil with when the service behind it
\* answers out of shape: a list with an element that is no string, a value
\* that is no list.
MalformedSuggestions ==
  { << <<"ab">>, Undefined >>, <<Undefined>>, NotAnArray }

SuggestionOffersAnyShape ==
  SuggestionOffers
  \cup {[suggest |-> TRUE, list |-> l] : l \in MalformedSuggestions}

\* What suggest leaves alone of the state of a search.
suggestVars ==
  <<page, perPage, driverPage, allResults, driverTotals, returnedBy,
    firstTotal, firstPositive, served>>

\* suggest(suggestOptions) up to Promise.allSettled: the empty-query return;
\* every driver with a suggest method is called, the callback of a driver
\* without one returns [] at once.
Suggest(q) ==
  /\ pc = "idle"
  /\ nSearch' = nSearch + 1
  /\ query' = q
  /\ IF trim(q) = <<>>
     THEN /\ pc' = "suggested"
          /\ response' = [suggestions |-> <<>>]
          /\ callLog' = <<>>
          /\ UNCHANGED settled
     ELSE /\ pc' = "suggesting"
          /\ response' = NoResponse
          /\ settled' = [i \in Drivers |->
               IF suggestions[i].suggest THEN Pending
               ELSE [status |-> "fulfilled", value |-> <<>>]]
          /\ callLog' = SelectSeq([i \in Drivers |-> [driver |-> i, suggest |-> q]],
                                  LAMBDA c : suggestions[c.driver].suggest)
  /\ UNCHANGED <<config, suggestVars>>

\* The provider's promise fulfils with its list before the timer fires.
SuggestFulfil(i) ==
  /\ pc = "suggesting"
  /\ settled[i].status = "pending"
  /\ settled' = [settled EXCEPT ![i] =
       [status |-> "fulfilled", value |-> suggestions[i].list]]
  /\ UNCHANGED <<config, suggestVars, pc, query, response, callLog, nSearch>>

\* The provider's suggest throws, or its promise rejects.
SuggestReject(i) ==
  /\ pc = "suggesting"
  /\ settled[i].status = "pending"
  /\ settled' = [settled EXCEPT ![i] = [status |-> "rejected", reason |-> "error"]]
  /\ UNCHANGED <<config, suggestVars, pc, query, response, callLog, nSearch>>

\* withTimeout: the timer fires while the provider's promise is pending.
SuggestTimeout(i) ==
  /\ pc = "suggesting"
  /\ TimerArmed(i)
  /\ settled[i].status = "pending"
  /\ settled' = [settled EXCEPT ![i] = [status |-> "rejected", reason |-> "timeout"]]
  /\ UNCHANGED <<config, suggestVars, pc, query, response, callLog, nSearch>>

\* Array.isArray(value)
isArray(value) == value # NotAnArray

\* allSuggestions: the fulfilled values that are arrays, in the order of
\* the drivers.
RECURSIVE AllSuggestions(_, _)
AllSuggestions(slots, i) ==
  IF i > Len(slots) THEN <<>>
  ELSE (IF slots[i].status = "fulfilled" /\ isArray(slots[i].value)
        THEN slots[i].value ELSE <<>>)
         \o AllSuggestions(slots, i + 1)

\* suggestion.toLowerCase() throws a TypeError for an element that is no
\* string.
DedupThrows(list) == \E k \in 1..Len(list) : list[k] = Undefined

\* Promise.allSettled resolves; the fulfilled lists are collected and
\* deduplicated; the catch block returns [] when that throws.
SuggestMerge ==
  /\ pc = "suggesting"
  /\ \A i \in Drivers : settled[i].status # "pending"
  /\ pc' = "suggested"
  /\ response' =
       [suggestions |->
          IF DedupThrows(AllSuggestions(settled, 1)) THEN <<>>
          ELSE deduplicateSuggestions(AllSuggestions(settled, 1))]
  /\ UNCHANGED <<config, suggestVars, query, settled, callLog, nSearch>>

\* The state after hybridDriver(options) returned, the drivers with their
\* suggest methods.
SuggestInit ==
  /\ IdleSearch({c \in DriverConfigs :
                   c[1].weight = 2 /\ c[2].weight = 1 /\ c[2].name = "b"},
                {<<UrlA>>})
  /\ cacheConfig = TRUE
  /\ cache = EmptyMap
  /\ ttl = defaultTtl
  /\ storageMeta = TRUE
  /\ clock = 0
  /\ requests = <<>>
  /\ inputs = <<>>
  /\ suggestions \in [Drivers -> SuggestionOffers]
  /\ lastOp = NoOp
  /\ calls = NoCalls
  /\ composable = FreshComposable

SuggestNext ==
  \/ \E q \in Queries : Suggest(q)
  \/ \E i \in Drivers : SuggestFulfil(i)
  \/ \E i \in Drivers : SuggestReject(i)
  \/ \E i \in Drivers : SuggestTimeout(i)
  \/ SuggestMerge

SuggestSpec == SuggestInit /\ [][SuggestNext]_vars

\* The same, the providers' suggest methods answering in any shape.
SuggestAnyShapeInit ==
  /\ IdleSearch({c \in DriverConfigs :
                   c[1].weight = 2 /\ c[2].weight = 1 /\ c[2].name = "b"},
                {<<UrlA>>})
  /\ cacheConfig = TRUE
  /\ cache = EmptyMap
  /\ ttl = defaultTtl
  /\ storageMeta = TRUE
  /\ clock = 0
  /\ requests = <<>>
  /\ inputs = <<>>
  /\ suggestions \in [Drivers -> SuggestionOffersAnyShape]
  /\ lastOp = NoOp
  /\ calls = NoCalls
  /\ composable = FreshComposable

SuggestAnyShapeSpec == SuggestAnyShapeInit /\ [][SuggestNext]_vars

----------------------------------------------------------------------------
(* hybridDriver(options), metaDriver(options)                               *)

Engines == {"hybridDriver", "metaDriver"}

\* The entries of options.drivers: a driver, with or without weight and
\* timeout.
DriverEntries ==
  { <<[name |-> "a", timeout |-> 3000], [name |-> "b", weight |-> 2]>>,
    <<[name |-> "a", weight |-> 2, timeout |-> 3000], [name |-> "b"]>> }

\* The options of the call: without drivers, with an empty list, with a
\* list of two.
EngineOptions ==
  {[name |-> "engine"], [name |-> "engine", drivers |-> <<>>]}
  \cup {[name |-> "engine", drivers |-> d] : d \in DriverEntries}

ConstructionThrowsOnMissing(options) == "drivers" \notin DOMAIN options

\* if (!drivers || drivers.length === 0) throw new Error(...)
ConstructionThrows(options) ==
  "drivers" \notin DOMAIN options \/ Len(options.drivers) = 0

\* drivers.map(({ driver, weight = 1.0, timeout }) => ({ driver, weight,
\* timeout })); a timeout that is left out is kept as 0 (both are falsy).
NormalizeDrivers(drivers) ==
  [i \in 1..Len(drivers) |->
     [name |-> drivers[i].name,
      weight |-> IF "weight" \in DOMAIN drivers[i] THEN drivers[i].weight ELSE 1,
      timeout |-> IF "timeout" \in DOMAIN drivers[i] THEN drivers[i].timeout ELSE 0]]

\* hybridDriver(options) or metaDriver(options): throws, or returns the
\* engine with its search and suggest methods.
Construct(engine, options) ==
  /\ pc = "unconstructed"
  /\ lastOp' = [op |-> engine, options |-> options]
  /\ IF ConstructionThrows(options)
     THEN /\ pc' = "threw"
          /\ UNCHANGED normalizedDrivers
     ELSE /\ pc' = "idle"
          /\ normalizedDrivers' = NormalizeDrivers(options.drivers)
  /\ UNCHANGED <<catalogue, cacheConfig, cache, ttl, storageMeta, clock,
                 requests, inputs, suggestions, query, page, perPage,
                 driverPage, allResults, driverTotals, settled, response,
                 callLog, returnedBy, firstTotal, firstPositive, nSearch,
                 served, calls, composable>>

\* Before the engine is constructed.
ConstructInit ==
  /\ normalizedDrivers = <<>>
  /\ catalogue \in [Drivers -> {<<UrlA, UrlB>>}]
  /\ pc = "unconstructed"
  /\ query = <<>>
  /\ page = 1
  /\ perPage = 1
  /\ driverPage = 1
  /\ allResults = <<>>
  /\ driverTotals = EmptyMap
  /\ settled = [i \in Drivers |-> Pending]
  /\ response = NoResponse
  /\ callLog = <<>>
  /\ returnedBy = {}
  /\ firstTotal = EmptyMap
  /\ firstPositive = EmptyMap
  /\ nSearch = 0
  /\ served = {}
  /\ cacheConfig = TRUE
  /\ cache = EmptyMap
  /\ ttl = defaultTtl
  /\ storageMeta = TRUE
  /\ clock = 0
  /\ requests = <<>>
  /\ inputs = <<>>
  /\ suggestions \in [Drivers -> {NoSuggest, [suggest |-> TRUE, list |-> << <<"ab">> >>]}]
  /\ lastOp = NoOp
  /\ calls = NoCalls
  /\ composable = FreshComposable

\* The engine is constructed; then one call of its suggest (the same code
\* in both engines) or, on the hybrid driver, of its search.
ConstructNext ==
  \/ \E engine \in Engines, options \in EngineOptions : Construct(engine, options)
  \/ SuggestNext
  \/ /\ pc = "idle"
     /\ lastOp.op = "hybridDriver"
     /\ \E n \in PerPages : Search(<<"q">>, 1, n)
  \/ \E i \in Drivers :
       \E result \in SearchResponses(i, driverPage, perPage) : Fulfil(i, result)
  \/ \E i \in Drivers : Reject(i)
  \/ \E i \in Drivers : Timeout(i)
  \/ MergeRound

ConstructSpec == ConstructInit /\ [][ConstructNext]_vars

----------------------------------------------------------------------------
(* usePolySearch: the composable of the browser extension                   *)

MaxStarted == 3

MaxShownPage == 2

\* The queries typed, character by character.
TypedQueries == {<<"a">>, <<"b">>, <<" ">>}

\* options?.page of search: 0 when the caller names no page
PageOptions == 0..MaxShownPage

\* Everything but the composable.
library ==
  <<searchVars, cacheConfig, cache, ttl, storageMeta, clock, requests,
    inputs, suggestions, lastOp, calls>>

\* `${query}-${page}-${perPageNum}`
getCacheKey(q, p, perPageNum) ==
  q \o <<"-">> \o toString(p) \o <<"-">> \o toString(perPageNum)

\* response.totalResults of the manager, per query.
ManagerTotal(q) == IF q = <<"a">> THEN 25 ELSE 12

\* What manager.search({ query, page, perPage }) resolves with when it
\* fulfils: the page asked for of the results for the query.
ManagerSearch(q, p, perPageNum) ==
  [results |-> <<[title |-> q, url |-> q \o <<"/">> \o toString(p)]>>,
   totalResults |-> Defined(ManagerTotal(q)),
   pagination |-> Defined([page |-> p, perPage |-> perPageNum])]

\* search(query, options) up to its return or its await, on the refs c:
\* the empty-query return, the clearing of the cache for a new query, the
\* cache hit, and the start of manager.search.
searchUntilAwait(c, q, optionsPage) ==
  IF trim(q) = <<>> THEN c
  ELSE
    LET p == IF optionsPage # 0 THEN optionsPage ELSE c.currentPage
        perPageNum == c.perPage
        key == getCacheKey(q, p, perPageNum)
        kept == IF q # c.currentQuery THEN EmptyMap ELSE c.searchCache
        id == c.nStarted + 1
    IN  IF key \in DOMAIN kept
        THEN [c EXCEPT !.searchCache = kept,
                       !.searchResults = kept[key].response.results,
                       !.totalResults = kept[key].response.totalResults,
                       !.pagination = kept[key].response.pagination,
                       !.currentQuery = q,
                       !.currentPage = p,
                       !.nStarted = id,
                       !.latest = [id |-> id, query |-> q, page |-> p,
                                   outcome |-> "cached"]]
        ELSE [c EXCEPT !.searchCache = kept,
                       !.isSearching = TRUE,
                       !.error = Null,
                       !.currentQuery = q,
                       !.currentPage = p,
                       !.inFlight = @ \cup {[id |-> id, query |-> q,
                                             page |-> p,
                                             perPage |-> perPageNum,
                                             cacheKey |-> key]},
                       !.nStarted = id,
                       !.latest = [id |-> id, query |-> q, page |-> p,
                                   outcome |-> "pending"]]

\* The outcome of the latest search, once its manager.search call settles.
Settled(latest, call, outcome) ==
  IF latest.outcome = "pending" /\ latest.id = call.id
  THEN [latest EXCEPT !.outcome = outcome]
  ELSE latest

\* search(query, options), called by the page.
ComposableSearch(q, optionsPage) ==
  /\ composable.nStarted < MaxStarted
  /\ composable' = searchUntilAwait(composable, q, optionsPage)
  /\ UNCHANGED library

\* manager.search fulfilled: the rest of the try block and the finally block.
SearchFulfilled(call) ==
  /\ call \in composable.inFlight
  /\ LET answer == ManagerSearch(call.query, call.page, call.perPage)
     IN  composable' =
           [composable EXCEPT
              !.searchResults = answer.results,
              !.totalResults = answer.totalResults,
              !.pagination = answer.pagination,
              !.searchCache =
                 [k \in DOMAIN @ \cup {call.cacheKey} |->
                    IF k = call.cacheKey
                    THEN [query |-> call.query, page |-> call.page,
                          perPage |-> call.perPage, response |-> answer]
                    ELSE @[k]],
              !.isSearching = FALSE,
              !.inFlight = @ \ {call},
              !.latest = Settled(@, call, "fulfilled")]
  /\ UNCHANGED library

\* manager.search rejected: the catch block and the finally block.
SearchRejected(call) ==
  /\ call \in composable.inFlight
  /\ composable' =
       [composable EXCEPT
          !.error = Defined("Search failed"),
          !.searchResults = <<>>,
          !.totalResults = undefined,
          !.pagination = undefined,
          !.isSearching = FALSE,
          !.inFlight = @ \ {call},
          !.latest = Settled(@, call, "rejected")]
  /\ UNCHANGED library

\* nextPage(): nothing without a pagination, else the next page is searched.
nextPage ==
  /\ composable.nStarted < MaxStarted
  /\ composable.pagination # undefined
  /\ composable.currentPage < MaxShownPage
  /\ LET newPage == composable.currentPage + 1
     IN  composable' =
           searchUntilAwait([composable EXCEPT !.currentPage = newPage],
                            composable.currentQuery, newPage)
  /\ UNCHANGED library

\* prevPage(): nothing without a pagination or on page 1.
prevPage ==
  /\ composable.nStarted < MaxStarted
  /\ composable.pagination # undefined
  /\ composable.currentPage > 1
  /\ LET newPage == composable.currentPage - 1
     IN  composable' =
           searchUntilAwait([composable EXCEPT !.currentPage = newPage],
                            composable.currentQuery, newPage)
  /\ UNCHANGED library

\* goToPage(page)
goToPage(p) ==
  /\ composable.nStarted < MaxStarted
  /\ composable' =
       searchUntilAwait([composable EXCEPT !.currentPage = p],
                        composable.currentQuery, p)
  /\ UNCHANGED library

\* clearResults(); the latest search is no longer the one shown.
clearResults ==
  /\ composable' =
       [composable EXCEPT
          !.searchResults = <<>>,
          !.totalResults = undefined,
          !.pagination = undefined,
          !.currentQuery = <<>>,
          !.error = Null,
          !.searchCache = EmptyMap,
          !.latest = [outcome |-> "cleared"]]
  /\ UNCHANGED library

\* A page that has just mounted the composable; the library is idle.
ComposableInit ==
  /\ IdleSearch({c \in DriverConfigs :
                   c[1].weight = 2 /\ c[2].weight = 1 /\ c[2].name = "b"},
                {<<UrlA>>})
  /\ cacheConfig = FALSE
  /\ cache = EmptyMap
  /\ ttl = defaultTtl
  /\ storageMeta = TRUE
  /\ clock = 0
  /\ requests = <<>>
  /\ inputs = <<>>
  /\ suggestions = <<>>
  /\ lastOp = NoOp
  /\ calls = NoCalls
  /\ composable = FreshComposable

\* The page calls the functions of the composable whenever it likes; the
\* searches in flight settle in any order.
ComposableNext ==
  \/ \E q \in TypedQueries, optionsPage \in PageOptions :
       ComposableSearch(q, optionsPage)
  \/ \E call \in composable.inFlight : SearchFulfilled(call)
  \/ \E call \in composable.inFlight : SearchRejected(call)
  \/ nextPage
  \/ prevPage
  \/ \E p \in 1..MaxShownPage : goToPage(p)
  \/ clearResults

ComposableSpec == ComposableInit /\ [][ComposableNext]_vars

----------------------------------------------------------------------------
(* Properties of hybridDriver.search                                        *)

Key(e) == normalizeUrl(e.url)

NameOf(i) == normalizedDrivers[i].name

\* The ranks of the results of one round.
RoundRanks(round, n) == ((round - 1) * n + 1)..(round * n)

\* The step in which Promise.allSettled resolves and the round is merged.
MergeStep == pc = "round" /\ (pc' # "round" \/ callLog' # callLog)

Malformed(slot) ==
  slot.status = "fulfilled" /\ ~WellFormed(slot.value.results)

\* No result of driver i's call of this round is in list.
NothingFrom(i, round, list) ==
  \A k \in 1..Len(list) :
    ~(list[k].title[1] = i /\ list[k].title[2] \in RoundRanks(round, perPage))

\* Every result the fulfilled call in slot returned is in list, under its
\* key, with the driver among its sources.
AllMerged(i, slot, list) ==
  \A k \in 1..Len(slot.value.results) :
    \E j \in 1..Len(list) :
      /\ Key(list[j]) = normalizeUrl(slot.value.results[k].url)
      /\ \E m \in 1..Len(list[j].sources) : list[j].sources[m] = NameOf(i)

\* C1: search never rejects because a provider's call threw or rejected:
\* when a round is merged, search rejects only if a fulfilled call returned a
\* malformed payload; otherwise a rejected call contributes no result of this
\* round, every result of every fulfilled call is merged, and a search that
\* ends here resolves with a response.
C1_ProviderFailureIsIsolated ==
  [][MergeStep =>
       /\ pc' = "rejected" => \E i \in Drivers : Malformed(settled[i])
       /\ pc' # "rejected" =>
            /\ pc' = "done" => "results" \in DOMAIN response'
            /\ \A i \in Drivers :
                 /\ (settled[i].status = "rejected" /\ settled[i].reason = "error")
                      => NothingFrom(i, driverPage, allResults')
                 /\ settled[i].status = "fulfilled"
                      => AllMerged(i, settled[i], allResults')]_vars

\* A search resolved although one call of its last round failed, with the
\* other provider's results in the response.
C1_Witness ==
  /\ pc = "done"
  /\ \E i, j \in Drivers :
       /\ settled[i].status = "rejected" /\ settled[i].reason = "error"
       /\ settled[j].status = "fulfilled"
       /\ \E k \in 1..Len(response.results) :
            response.results[k].title[1] = j

TimedOut(slot) == slot.status = "rejected" /\ slot.reason = "timeout"

\* C2: a call that timed out contributes no result of its round, whether or
\* not the provider answers before the round is merged, and the results of
\* the calls that fulfilled in a round with a timeout are merged.
C2_TimeoutIsIsolated ==
  [][(MergeStep /\ pc' # "rejected") =>
       \A i \in Drivers :
         /\ TimedOut(settled[i]) => NothingFrom(i, driverPage, allResults')
         /\ (settled[i].status = "fulfilled"
               /\ \E j \in Drivers : TimedOut(settled[j]))
              => AllMerged(i, settled[i], allResults')]_vars

\* A search resolved while a provider that timed out in the last round had
\* still not answered, with the other provider's results in the response.
C2_Witness ==
  /\ pc = "done"
  /\ \E i, j \in Drivers :
       /\ TimedOut(settled[i])
       /\ "late" \notin DOMAIN settled[i]
       /\ settled[j].status = "fulfilled"
       /\ \E k \in 1..Len(response.results) :
            response.results[k].title[1] = j

NoSharedKey(list) ==
  \A j, k \in 1..Len(list) : j < k => Key(list[j]) # Key(list[k])

\* C3: no two entries of the accumulated list, and none of a response,
\* have URLs with the same normalized key.
C3_DedupInvariant ==
  /\ NoSharedKey(allResults)
  /\ (pc = "done" => NoSharedKey(response.results))

InCatalogue(url, d) == \E k \in 1..Len(catalogue[d]) : catalogue[d][k] = url

\* A response holds an entry whose URL was returned in two spellings.
C3_Witness ==
  /\ pc = "done"
  /\ \E k \in 1..Len(response.results), d \in Drivers :
       /\ response.results[k].url = UrlA2
       /\ ~InCatalogue(UrlA2, d)
       /\ <<d, normalizeUrl(UrlA2)>> \in returnedBy

Contributors(key) == {i \in Drivers : <<i, key>> \in returnedBy}

\* C4: the title and snippet of a merged entry are those of a result with
\* this key from a provider whose weight is the highest among the providers
\* that returned the key.
C4_WeightPrecedence ==
  pc = "done" =>
    \A k \in 1..Len(allResults) :
      LET e == allResults[k]
          d == e.title[1]
      IN  /\ d \in Contributors(Key(e))
          /\ \A j \in Contributors(Key(e)) :
               normalizedDrivers[d].weight >= normalizedDrivers[j].weight
          /\ normalizeUrl(catalogue[d][e.title[2]]) = Key(e)
          /\ e.snippet = <<"about", d, e.title[2]>>

\* A returned entry carries the title of the heavier provider although the
\* lighter provider's result was stored first.
C4_Witness ==
  /\ pc = "done"
  /\ \E k \in 1..Len(response.results), j \in Drivers :
       LET e == response.results[k]
       IN  /\ j \in Contributors(Key(e))
           /\ normalizedDrivers[e.title[1]].weight > normalizedDrivers[j].weight
           /\ ~InCatalogue(e.url, e.title[1])

Elements(seq) == {seq[k] : k \in 1..Len(seq)}

\* C5: the sources of a merged entry are the names of the providers that
\* returned a result with its key, each name once.
C5_SourceUnion ==
  pc = "done" =>
    \A k \in 1..Len(allResults) :
      LET e == allResults[k]
      IN  /\ Elements(e.sources) = {NameOf(i) : i \in Contributors(Key(e))}
          /\ Cardinality(Elements(e.sources)) = Len(e.sources)

\* A returned entry lists both providers, and another was returned by two
\* providers of one name.
C5_Witness ==
  /\ pc = "done"
  /\ \E k \in 1..Len(response.results) :
       /\ Cardinality(Contributors(Key(response.results[k]))) = 2
       /\ \/ Len(response.results[k].sources) = 2
          \/ NameOf(1) = NameOf(2)

Sorted(list) ==
  \A j, k \in 1..Len(list) :
    j < k =>
      /\ list[j].rank * list[k].weight <= list[k].rank * list[j].weight
      /\ list[j].rank * list[k].weight = list[k].rank * list[j].weight
           => list[j].weight >= list[k].weight

\* C6: the accumulated list and the returned page are in ascending order of
\* rank / weight, entries of equal score in descending order of weight.
C6_SortedByScore ==
  /\ Sorted(allResults)
  /\ (pc = "done" => Sorted(response.results))

\* The list of a finished search holds two entries of equal score: the one
\* of the heavier second driver precedes the one of the first driver.
C6_Witness ==
  /\ pc = "done"
  /\ \E j, k \in 1..Len(allResults) :
       /\ j < k
       /\ allResults[j].rank * allResults[k].weight
            = allResults[k].rank * allResults[j].weight
       /\ allResults[j].weight > allResults[k].weight
       /\ allResults[j].title[1] = 2
       /\ allResults[k].title[1] = 1

\* C7: the returned page is the entries at positions (page-1)*perPage + 1
\* .. page*perPage of the accumulated list, as many of them as exist.
C7_PaginationSlice ==
  (pc = "done" /\ trim(query) # <<>>) =>
    LET first == (page - 1) * perPage
        count == IF Len(allResults) <= first THEN 0
                 ELSE IF Len(allResults) - first < perPage
                 THEN Len(allResults) - first
                 ELSE perPage
    IN  /\ Len(response.results) = count
        /\ \A k \in 1..count : response.results[k] = allResults[first + k]

\* A second page that is shorter than perPage.
C7_Witness ==
  /\ pc = "done"
  /\ page = 2
  /\ perPage = 2
  /\ Len(response.results) = 1

\* The totals that may stand under a name: the first total above 0 of a
\* driver of that name, of the driver whose first such report came in the
\* earliest round.
RecordedUnder(name) ==
  {firstPositive[i].total : i \in
     {i \in DOMAIN firstPositive :
        /\ NameOf(i) = name
        /\ \A j \in DOMAIN firstPositive :
             NameOf(j) = name => firstPositive[i].round <= firstPositive[j].round}}

ReportingNames == {NameOf(i) : i \in DOMAIN firstPositive}

NewCalls ==
  IF nSearch' # nSearch THEN callLog'
  ELSE SubSeq(callLog', Len(callLog) + 1, Len(callLog'))

OldCalls == IF nSearch' # nSearch THEN <<>> ELSE callLog

\* C9: whenever a search calls providers, it calls every provider exactly
\* once, with the request's perPage and with the next page: page 1 first,
\* then 2, ... and never a page above 5; no provider is called again for a
\* page it was called for, whatever the outcome of that call.
C9_RoundsAndCalls ==
  [][callLog' # callLog =>
       /\ callLog' = OldCalls \o NewCalls
       /\ \A d \in Drivers :
            Cardinality({j \in 1..Len(NewCalls) : NewCalls[j].driver = d}) = 1
       /\ \A j \in 1..Len(NewCalls) :
            /\ NewCalls[j].driver \in Drivers
            /\ NewCalls[j].perPage = perPage'
            /\ NewCalls[j].page = Len(OldCalls) \div Cardinality(Drivers) + 1
            /\ NewCalls[j].page <= maxPages
            /\ \A k \in 1..Len(OldCalls) :
                 ~(/\ OldCalls[k].driver = NewCalls[j].driver
                   /\ OldCalls[k].page = NewCalls[j].page)]_vars

\* A search that ran five rounds, calls of which failed, and then returned.
C9_Witness ==
  /\ pc = "done"
  /\ Len(callLog) = maxPages * Cardinality(Drivers)
  /\ driverPage = maxPages + 1
  /\ \E i \in Drivers : settled[i].status = "rejected"

\* C10, as claimed: with caching enabled, a search for a request that an
\* earlier search has answered makes no provider call.
C10_RepeatMakesNoProviderCall ==
  (cacheConfig # FALSE /\ nSearch >= 2 /\ <<query, page, perPage>> \in served)
    => callLog = <<>>

----------------------------------------------------------------------------
(* Properties of createCache                                                *)

\* C11, as claimed: on an enabled cache, a get that directly follows a set
\* of the same key, within the ttl, returns the value that was set.
C11_SetThenGetReturnsValue ==
  (/\ cacheConfig # FALSE
   /\ lastOp.op = "get"
   /\ lastOp.after.op = "set"
   /\ lastOp.after.key = lastOp.key
   /\ lastOp.at - lastOp.after.at <= ttl)
    => lastOp.result = lastOp.after.value

\* C12: on an enabled cache, a get of a key whose entry was set more than
\* ttl seconds before returns null and leaves no entry for the key; a get of
\* a key without entry returns null and leaves the entries as they are, so
\* that gets miss until the key is set again.
C12_ExpiredEntryMissesAndIsRemoved ==
  [][\A key \in CacheKeys :
       (cacheConfig # FALSE /\ CacheGet(key)) =>
         /\ (key \in DOMAIN cache /\ clock - cache[key].mtime > ttl) =>
              (lastOp'.result = Null /\ key \notin DOMAIN cache')
         /\ key \notin DOMAIN cache =>
              (lastOp'.result = Null /\ cache' = cache)]_vars

\* A get found an entry older than the ttl on a storage that reports
\* modification times, missed and removed it.
C12_Witness ==
  /\ cacheConfig # FALSE
  /\ storageMeta
  /\ lastOp.op = "get"
  /\ lastOp.stored # Null
  /\ lastOp.at - lastOp.stored.mtime > ttl
  /\ lastOp.result = Null
  /\ lastOp.key \notin DOMAIN cache

\* C13: the cache of createCache(false) holds no entry whatever was set, and
\* every get of it returns null.
C13_DisabledCacheAlwaysMisses ==
  cacheConfig = FALSE =>
    /\ cache = EmptyMap
    /\ lastOp.op = "get" => lastOp.result = Null

\* A get of the disabled cache directly after a set of the same key missed.
C13_Witness ==
  /\ cacheConfig = FALSE
  /\ lastOp.op = "get"
  /\ lastOp.after.op = "set"
  /\ lastOp.after.key = lastOp.key
  /\ lastOp.after.at = lastOp.at
  /\ lastOp.result = Null

----------------------------------------------------------------------------
(* Properties of the cached drivers                                         *)

\* C14, as claimed: two requests that differ in the registry or search
\* engine, the query, the page or the perPage never share a cache key, so a
\* search answered from the cache is answered with the response to its own
\* request.
C14_AnsweredWithOwnResponse ==
  (lastOp.op = "search" /\ ~lastOp.rejected /\ ~lastOp.fetched) =>
    lastOp.response = Upstream(lastOp.request)

\* C15, as claimed: a search during which a call of the storage backend
\* rejects resolves, with the response the driver gives without cache.
C15_BackendFailureIsAMiss ==
  (lastOp.op = "search" /\ lastOp.failed) =>
    /\ ~lastOp.rejected
    /\ lastOp.response = Uncached(lastOp.request, lastOp.fetchFails)

----------------------------------------------------------------------------
(* Properties of normalizeUrl                                               *)

\* C16, as claimed: two URLs that differ only in letter case, in a trailing
\* "/" and in their tracking parameters get the same key, and two results
\* that carry them are merged into one entry.
C16_SpellingsShareAKey ==
  (lastOp.op = "normalizeUrl" /\ inputs.relation = "spelling") =>
    /\ lastOp.keys[1] = lastOp.keys[2]
    /\ Len(lastOp.merged) = 1

\* C17, as claimed: two URLs that differ only by a leading www. label of
\* the host get the same key, and two results that carry them are merged
\* into one entry.
C17_WwwLabelIsIgnored ==
  (lastOp.op = "normalizeUrl" /\ inputs.relation = "www") =>
    /\ lastOp.keys[1] = lastOp.keys[2]
    /\ Len(lastOp.merged) = 1

----------------------------------------------------------------------------
(* Properties of hybridDriver.search: malformed payloads, empty queries     *)

\* C18, as claimed: a malformed payload is treated like a failed call, so
\* no search rejects when a call of its round fulfilled with a results field
\* that is no list or with an item without url.
C18_MalformedPayloadIsIsolated ==
  ~(pc = "rejected" /\ \E i \in Drivers : Malformed(settled[i]))

\* The query is empty or consists of white space only.
Blank(q) == \A k \in 1..Len(q) : q[k] = " "

\* C19: a search for an empty or white-space-only query has returned a
\* response with an empty results list as soon as it was started, and has
\* called no provider.
C19_BlankQueryCallsNoProvider ==
  (nSearch > 0 /\ Blank(query)) =>
    /\ pc = "done"
    /\ response.results = <<>>
    /\ callLog = <<>>
    /\ \A i \in Drivers : settled[i] = Pending

\* A search for a query of one blank has returned.
C19_Witness ==
  /\ nSearch > 0
  /\ query = <<" ">>
  /\ pc = "done"
  /\ response.results = <<>>
  /\ callLog = <<>>

----------------------------------------------------------------------------
(* Properties of hybridDriver.suggest                                       *)

\* Two suggestions are the same text, letter case and surrounding white
\* space aside.
SameText(a, b) == trim(toLowerCase(a)) = trim(toLowerCase(b))

\* The lists of the providers whose call fulfilled, one after the other in
\* the order of the drivers.
FulfilledLists ==
  AllSuggestions(
    [i \in Drivers |->
       IF settled[i].status = "fulfilled" /\ suggestions[i].suggest
       THEN [status |-> "fulfilled", value |-> suggestions[i].list]
       ELSE [status |-> "none"]],
    1)

\* The positions of list whose text occurs at no earlier position.
FirstOccurrences(list) ==
  {k \in 1..Len(list) : \A j \in 1..(k - 1) : ~SameText(list[j], list[k])}

\* The elements of list at the positions in keep, in order.
RECURSIVE Pick(_, _, _)
Pick(list, k, keep) ==
  IF k > Len(list) THEN <<>>
  ELSE (IF k \in keep THEN <<list[k]>> ELSE <<>>) \o Pick(list, k + 1, keep)

\* C20, as amended: suggest returns the fulfilled providers' lists, one
\* after the other in the order of the drivers, without the suggestions
\* that are empty once trimmed, and with only the first occurrence, as it is
\* spelled, of each text.
C20_SuggestDedup ==
  (pc = "suggested" /\ trim(query) # <<>>) =>
    response.suggestions =
      Pick(FulfilledLists, 1,
           {k \in FirstOccurrences(FulfilledLists) :
              trim(FulfilledLists[k]) # <<>>})

\* Both providers answered, the first with " AB", "", "ef", " " and the
\* second with "ab", "AB", "cd": suggest returned " AB", "ef", "cd".
C20_Witness ==
  /\ pc = "suggested"
  /\ \A i \in Drivers : settled[i].status = "fulfilled" /\ suggestions[i].suggest
  /\ suggestions[1].list = << <<" ", "AB">>, <<>>, <<"ef">>, <<" ">> >>
  /\ suggestions[2].list = << <<"ab">>, <<"AB">>, <<"cd">> >>
  /\ response.suggestions = << <<" ", "AB">>, <<"ef">>, <<"cd">> >>

\* C20, as claimed: suggest returns the fulfilled providers' lists, one
\* after the other, with only the first occurrence of each text.
C20_SuggestKeepsEveryFirstOccurrence ==
  (pc = "suggested" /\ trim(query) # <<>>) =>
    response.suggestions =
      Pick(FulfilledLists, 1, FirstOccurrences(FulfilledLists))

\* The example of the claim: "ab", "AB", "cd" and "cd", "ef" give "ab",
\* "cd", "ef".
C20_Example ==
  (/\ pc = "suggested" /\ trim(query) # <<>>
   /\ \A i \in Drivers : settled[i].status = "fulfilled" /\ suggestions[i].suggest
   /\ suggestions[1].list = << <<"ab">>, <<"AB">>, <<"cd">> >>
   /\ suggestions[2].list = << <<"cd">>, <<"ef">> >>)
    => response.suggestions = << <<"ab">>, <<"cd">>, <<"ef">> >>

\* The suggestions of list that are strings with text.
TextsOf(list) ==
  {list[k] : k \in {k \in 1..Len(list) :
                      list[k] # Undefined /\ ~Blank(list[k])}}

\* C21, as claimed: whatever happens to the other providers' calls, every
\* suggestion with text that a provider's fulfilled call returned is in the
\* list suggest returns, in the spelling of one of its occurrences.
C21_RemainingSuggestionsAreReturned ==
  (pc = "suggested" /\ ~Blank(query)) =>
    \A i \in Drivers :
      (/\ suggestions[i].suggest
       /\ settled[i].status = "fulfilled"
       /\ isArray(suggestions[i].list)) =>
        \A s \in TextsOf(suggestions[i].list) :
          \E k \in 1..Len(response.suggestions) :
            SameText(response.suggestions[k], s)

----------------------------------------------------------------------------
(* Properties of hybridDriver(options) and metaDriver(options)              *)

\* The options name no provider.
NoProviders(options) ==
  "drivers" \notin DOMAIN options \/ options.drivers = <<>>

\* C22: constructing either engine with options without drivers or with an
\* empty drivers list throws and leaves no engine; an engine that was
\* constructed has as many providers as its options named, at least one;
\* and every search or suggest call runs on an engine with a provider.
C22_NoEngineWithoutProviders ==
  [][/\ (pc = "unconstructed" /\ pc' # pc) =>
          /\ NoProviders(lastOp'.options) =>
               (pc' = "threw" /\ normalizedDrivers' = <<>>)
          /\ pc' # "threw" =>
               /\ Len(normalizedDrivers') = Len(lastOp'.options.drivers)
               /\ Len(normalizedDrivers') >= 1
     /\ pc = "threw" => pc' = "threw"
     /\ nSearch' # nSearch =>
          (pc = "idle" /\ Len(normalizedDrivers) >= 1)]_vars

\* metaDriver({ drivers: [] }) threw.
C22_Witness ==
  /\ pc = "threw"
  /\ lastOp.op = "metaDriver"
  /\ "drivers" \in DOMAIN lastOp.options
  /\ lastOp.options.drivers = <<>>
  /\ nSearch = 0

----------------------------------------------------------------------------
(* Properties of deduplicateResults: members of equal weight                *)

\* C23, as claimed: the rank and the weight a merged entry is ordered by
\* are those of the member whose title and snippet it keeps (the title of a
\* result names the provider that returned it and the rank it had there), so
\* that among members of equal weight the one of the lowest rank is kept.
C23_TitleAndRankOfOneMember ==
  pc = "done" =>
    \A k \in 1..Len(allResults) :
      LET e == allResults[k]
      IN  /\ e.rank = e.title[2]
          /\ e.weight = normalizedDrivers[e.title[1]].weight
          /\ e.snippet = <<"about", e.title[1], e.title[2]>>

----------------------------------------------------------------------------
(* Properties of hybridDriver.search: the order of the rounds               *)

\* C24: within a search, the calls of the next round are issued only in a
\* step in which every call of the running round has settled, the results
\* of its fulfilled calls have been merged into the deduplicated list, and
\* that list is shorter than page * perPage; they are calls for the
\* following page.  Once the list has page * perPage entries no call is
\* issued any more, and the merge that gets it there ends the search.
C24_RoundsAreSequential ==
  [][/\ (nSearch' = nSearch /\ callLog' # callLog) =>
          /\ \A i \in Drivers : settled[i].status # "pending"
          /\ \A i \in Drivers :
               settled[i].status = "fulfilled" =>
                 AllMerged(i, settled[i], allResults')
          /\ NoSharedKey(allResults')
          /\ Len(allResults') < page * perPage
          /\ \A j \in (Len(callLog) + 1)..Len(callLog') :
               callLog'[j].page = callLog[Len(callLog)].page + 1
     /\ (nSearch' = nSearch /\ Len(allResults) >= page * perPage) =>
          callLog' = callLog
     /\ (MergeStep /\ pc' # "rejected" /\ Len(allResults') >= page * perPage) =>
          (pc' = "done" /\ callLog' = callLog)]_vars

\* A search ended after its second round, a call of which failed: the list
\* was too short after the first round and long enough after the second.
C24_Witness ==
  /\ pc = "done"
  /\ driverPage = 2
  /\ Len(callLog) = 2 * Cardinality(Drivers)
  /\ Len(allResults) >= page * perPage
  /\ \E i \in Drivers : settled[i].status = "rejected"

----------------------------------------------------------------------------
(* Properties of createCache: overlapping calls                             *)

\* C25, as claimed: a get that overlaps a set of its key returns no value
\* that was written more than ttl seconds before, and a get made after both
\* calls have completed, within ttl seconds of the set, returns the value
\* the set wrote.
C25_OverlappingGetAndSetAreSafe ==
  /\ (calls.get.at = "done" /\ calls.get.result # Null) =>
       calls.get.returned - calls.get.written <= ttl
  /\ (/\ calls.get.at = "done"
      /\ calls.set.at = "done"
      /\ lastOp.op = "get"
      /\ lastOp.at - calls.set.time <= ttl) =>
       lastOp.result = NewValue

----------------------------------------------------------------------------
(* Properties of hybridDriver.search: the pages of one query                *)

RECURSIVE Flatten(_)
Flatten(lists) ==
  IF lists = <<>> THEN <<>> ELSE Head(lists) \o Flatten(Tail(lists))

Keys(list) == [k \in 1..Len(list) |-> Key(list[k])]

\* C26, as claimed: with providers that answer every call and return the
\* same results for the same page, the pages 1, ..., p that searches for one
\* query returned share no result, and one after the other they are the
\* start of the ranked list of the last search.
C26_PagesFormOneList ==
  (pc = "done" /\ Len(KeptPages) = page) =>
    /\ NoSharedKey(Flatten(KeptPages))
    /\ Len(Flatten(KeptPages)) <= Len(allResults)
    /\ Keys(Flatten(KeptPages))
         = SubSeq(Keys(allResults), 1, Len(Flatten(KeptPages)))

----------------------------------------------------------------------------
(* Properties of hybridDriver.search: the order of completion               *)

\* The settled promises of a round in which every call fulfilled with the
\* provider's fixed response.
FixedSlots(round) ==
  [i \in Drivers |->
     [status |-> "fulfilled",
      value |-> [driverName |-> NameOf(i),
                 weight |-> normalizedDrivers[i].weight,
                 results |-> FixedResponse(i, round, perPage).results]]]

\* The totals after the calls of a round completed in the order of the
\* drivers, from driver i on.
RECURSIVE TotalsInOrder(_, _, _)
TotalsInOrder(totals, i, round) ==
  IF i > Len(normalizedDrivers) THEN totals
  ELSE TotalsInOrder(
         RecordTotal(totals, NameOf(i), FixedResponse(i, round, perPage)),
         i + 1, round)

\* The response of the search when the calls of every round complete in the
\* order of the drivers.
RECURSIVE ResponseInOrder(_, _, _)
ResponseInOrder(round, list, totals) ==
  LET merged == deduplicateResults(list \o Pushed(FixedSlots(round), 1, round, perPage))
      recorded == TotalsInOrder(totals, 1, round)
  IN  IF Len(merged) >= page * perPage \/ round >= maxPages
      THEN SearchResponse(merged, recorded, page, perPage)
      ELSE ResponseInOrder(round + 1, merged, recorded)

\* C27, as claimed: with fixed provider responses, the response of a search
\* is the one it gives when the calls of every round complete in the order
\* of the drivers, in whatever order they did complete.
C27_ResponseIsIndependentOfCompletionOrder ==
  pc = "done" => response = ResponseInOrder(1, <<>>, EmptyMap)

----------------------------------------------------------------------------
(* Properties of hybridDriver.search: termination                           *)

\* C28: when every call of a provider that is bound without timeout
\* settles in the end, a search that has called its providers returns,
\* whether or not the providers bound with a timeout ever answer.
C28_SearchEventuallyReturns == (pc = "round") ~> (pc = "done")

\* A search returned after the provider bound with a timeout had not
\* answered in the last round.
C28_Witness ==
  /\ pc = "done"
  /\ callLog # <<>>
  /\ TimerArmed(1)
  /\ TimedOut(settled[1])
  /\ ~TimerArmed(2)
  /\ settled[2].status # "pending"

----------------------------------------------------------------------------
(* Properties of createCache: storages without modification times           *)

\* C29: on an enabled cache, a get returns a value only if the storage
\* reports a modification time for the key and the entry is at most ttl
\* seconds old, and then the value stored; a get of a key that has an entry
\* on a storage that reports no modification time returns null and removes
\* the entry.
C29_ValueOnlyWithFreshMtime ==
  [][\A key \in CacheKeys :
       (cacheConfig # FALSE /\ CacheGet(key)) =>
         /\ lastOp'.result # Null =>
              /\ key \in DOMAIN cache
              /\ "mtime" \in DOMAIN StorageGetMeta(cache, key)
              /\ clock - cache[key].mtime <= ttl
              /\ lastOp'.result = cache[key].value
              /\ cache' = cache
         /\ (key \in DOMAIN cache
               /\ "mtime" \notin DOMAIN StorageGetMeta(cache, key)) =>
              (lastOp'.result = Null /\ key \notin DOMAIN cache')]_vars

\* On a storage that reports no modification times, a get that directly
\* followed the set of its key, in the same second, missed and removed the
\* entry.
C29_Witness ==
  /\ cacheConfig # FALSE
  /\ ~storageMeta
  /\ lastOp.op = "get"
  /\ lastOp.after.op = "set"
  /\ lastOp.after.key = lastOp.key
  /\ lastOp.after.at = lastOp.at
  /\ lastOp.stored # Null
  /\ lastOp.result = Null
  /\ ~(lastOp.key \in DOMAIN cache)

----------------------------------------------------------------------------
(* Properties of usePolySearch                                              *)

\* C30: once every search of the composable has settled, and the search
\* started last was answered, searchResults, totalResults and pagination
\* are those of the response to the search started last; and the cache of
\* the composable never holds an entry for a query other than the current
\* one.
C30_LatestSearchIsShown ==
  /\ (composable.inFlight = {}
        /\ composable.latest.outcome \in {"fulfilled", "cached"}) =>
       LET answer == ManagerSearch(composable.latest.query,
                                     composable.latest.page,
                                     composable.perPage)
       IN  /\ composable.searchResults = answer.results
           /\ composable.totalResults = answer.totalResults
           /\ composable.pagination = answer.pagination
  /\ \A k \in DOMAIN composable.searchCache :
       composable.searchCache[k].query = composable.currentQuery

====
